---------------------------- MODULE Spec2Model ----------------------------
(***************************************************************************)
(* PhotoShare: the authentication / session / role core.                   *)
(*   Project/src/services/auth_service.py   signup, signin, signout,       *)
(*                                          refresh_token, admin_required  *)
(*   Project/src/services/dependencies.py   get_current_user               *)
(*   Project/src/routes/auth.py             promote, block, users/me       *)
(*   Project/src/entity/models.py           User, Role                     *)
(*                                                                         *)
(* Spec     : requests run one at a time: a handler is one step, and its   *)
(*            response is delivered before the next request is taken.      *)
(* SpecRace : signup requests interleave at their await points.            *)
(***************************************************************************)
EXTENDS Integers, Sequences, FiniteSets, TLC

\* ------------------------------------------------------------- bounds
MaxTicks == 1
MaxSignins == 2
MaxProcs == 2

\* -------------------------------------------------- program constants
ACCESS_TOKEN_MINUTES == 15
REFRESH_TOKEN_DAYS == 7

AccessTTL == ACCESS_TOKEN_MINUTES * 60
RefreshTTL == REFRESH_TOKEN_DAYS * 86400

\* The values requests are made with.
Emails == {"a@x.com", "b@x.com"}
Passwords == {"p1", "p2"}
Salts == {"s1"}

\* The signup forms submitted: two identities, and a second form for the
\* second email that reuses the first identity's username.
SignupForms ==
    { [email |-> "a@x.com", username |-> "a", password |-> "p1"],
      [email |-> "b@x.com", username |-> "b", password |-> "p2"],
      [email |-> "b@x.com", username |-> "a", password |-> "p2"] }
Procs == 1..MaxProcs

\* A subject that is no registered email, and a payload without "sub".
GhostEmail == "ghost@x.com"
NoSub == "None"

\* class Role(enum.Enum)
Role == {"admin", "moderator", "user"}

VARIABLES
    users,     \* the users table, in insertion order; a row's id is its index
    now,       \* datetime.utcnow(), in whole seconds (the resolution of iat/exp)
    ticks,     \* how often the clock has advanced
    sessions,  \* the token pairs the signins have returned, oldest first
    last,      \* the request just handled and its response, until delivered
    pc,        \* each interleaved request's position
    loc,       \* each interleaved request's arguments and locals
    posts,            \* the posts table, in insertion order
    posts_id_seq,     \* the last id the posts table has handed out
    comments,         \* the comments table, in the order a select without
                      \* ORDER BY returns its rows
    comments_id_seq   \* the last id the comments table has handed out

\* the tables of routes/photos.py and repository/comments.py
content == <<posts, posts_id_seq, comments, comments_id_seq>>

vars == <<users, now, ticks, sessions, last, pc, loc, content>>

\* ------------------------------------------------------------- tokens
\* A bearer string: absent (no Authorization header), garbage (not a JWT),
\* forged (a JWT signed with another key) or signed (with SECRET_KEY).
Token(kind, sub, iat, exp, scope) ==
    [kind |-> kind, sub |-> sub, iat |-> iat, exp |-> exp, scope |-> scope]

NoToken == Token("absent", NoSub, 0, 0, "-")
GarbageToken == Token("garbage", NoSub, 0, 0, "-")
FarFuture == 4 * RefreshTTL

CraftedTokens ==
    { NoToken, GarbageToken,
      Token("forged", "a@x.com", 0, FarFuture, "access_token"),
      Token("signed", GhostEmail, 0, FarFuture, "access_token"),
      Token("signed", NoSub, 0, FarFuture, "access_token") }

create_access_token(sub, t) ==
    Token("signed", sub, t, t + AccessTTL, "access_token")

create_refresh_token(sub, t) ==
    Token("signed", sub, t, t + RefreshTTL, "refresh_token")

\* Mutant: the exp claim is not verified.
Mut_jwt_decode_NoExp(tok, t) ==
    IF tok.kind # "signed" THEN "JWTError" ELSE "ok"

\* jose.jwt.decode: the signature, then the exp claim against the clock
\* (ExpiredSignatureError is a JWTError). jose encodes iat and exp as whole
\* seconds, so tokens for one subject issued in one second are equal strings.
jwt_decode(tok, t) ==
    IF tok.kind # "signed" THEN "JWTError"
    ELSE IF tok.exp < t THEN "ExpiredSignatureError"
    ELSE "ok"

\* ---------------------------------------------------------- passwords
\* bcrypt: a fresh salt per hash; the digest binds salt and plaintext.
Digest(salt, password) == <<"bcrypt", salt, password>>

get_password_hash(password, salt) ==
    [salt |-> salt, digest |-> Digest(salt, password)]

\* Mutant: every password verifies.
Mut_verify_password_AnyPassword(plain_password, hashed_password) == TRUE

verify_password(plain_password, hashed_password) ==
    Digest(hashed_password.salt, plain_password) = hashed_password.digest

\* -------------------------------------------------------------- store
\* select(User).filter(User.email == email) ... first()/scalar(): 0 for None
FindByEmail(us, email) ==
    IF \E i \in DOMAIN us : us[i].email = email
    THEN CHOOSE i \in DOMAIN us :
            /\ us[i].email = email
            /\ \A j \in DOMAIN us : us[j].email = email => i <= j
    ELSE 0

\* select(User).filter(User.id == user_id) ... first(): 0 for None
FindById(us, user_id) == IF user_id \in DOMAIN us THEN user_id ELSE 0

\* Mutant: every signup is granted admin.
Mut_SignupRole_AlwaysAdmin(us) == "admin"

\* "admin" if (await db.execute(select(User))).scalar() is None else "user"
SignupRole(us) == IF Len(us) = 0 THEN "admin" ELSE "user"

NewUser(email, username, hashed, role) ==
    [email |-> email, username |-> username, hashed_password |-> hashed,
     role |-> role, is_blocked |-> FALSE, refresh_token |-> NoToken]

\* ---------------------------------------------------------- responses
\* What a handler answered (status, detail, the caller's or the created user's
\* id, the tokens returned), with the request it answered (op and arguments).
Resp(op, status, detail) ==
    [op |-> op, status |-> status, detail |-> detail, tok |-> NoToken,
     email |-> "", username |-> "", target |-> 0, flag |-> FALSE,
     uid |-> 0, access |-> NoToken, refresh |-> NoToken]

\* Every token a signin has returned so far.
issued ==
    {sessions[i].access : i \in DOMAIN sessions}
        \cup {sessions[i].refresh : i \in DOMAIN sessions}

\* What a client can send: a token some signin returned, or a crafted one.
Presentable == issued \cup CraftedTokens

\* What the state-changing gated routes are called with: an access token some
\* signin returned, or none (GET /users/me is called with every presentable
\* token).
Bearers == {sessions[i].access : i \in DOMAIN sessions} \cup {NoToken}

\* ----------------------------------------------- authentication gate
\* Mutant: a blocked user is refused like an unknown one (401).
Mut_get_current_user_Blocked401(tok, us, t) ==
    LET credentials_exception ==
            [status |-> 401, detail |-> "Could not validate credentials", uid |-> 0]
        uid == FindByEmail(us, tok.sub)
    IN  IF tok.kind = "absent"
        THEN [status |-> 401, detail |-> "Not authenticated", uid |-> 0]
        ELSE IF jwt_decode(tok, t) # "ok" THEN credentials_exception
        ELSE IF tok.sub = NoSub THEN credentials_exception
        ELSE IF uid = 0 THEN credentials_exception
        ELSE IF us[uid].is_blocked THEN credentials_exception
        ELSE [status |-> 200, detail |-> "", uid |-> uid]

\* Mutant: the gate also refuses a user who holds no stored refresh token
\* (signed out).
Mut_get_current_user_SessionBound(tok, us, t) ==
    LET credentials_exception ==
            [status |-> 401, detail |-> "Could not validate credentials", uid |-> 0]
        uid == FindByEmail(us, tok.sub)
    IN  IF tok.kind = "absent"
        THEN [status |-> 401, detail |-> "Not authenticated", uid |-> 0]
        ELSE IF jwt_decode(tok, t) # "ok" THEN credentials_exception
        ELSE IF tok.sub = NoSub THEN credentials_exception
        ELSE IF uid = 0 THEN credentials_exception
        ELSE IF us[uid].refresh_token = NoToken THEN credentials_exception
        ELSE IF us[uid].is_blocked
        THEN [status |-> 403, detail |-> "Your account is blocked.", uid |-> 0]
        ELSE [status |-> 200, detail |-> "", uid |-> uid]

\* oauth2_scheme, then get_current_user: the user's id with status 200, or
\* the HTTPException raised (uid 0: no user returned)
get_current_user(tok, us, t) ==
    LET credentials_exception ==
            [status |-> 401, detail |-> "Could not validate credentials", uid |-> 0]
        uid == FindByEmail(us, tok.sub)
    IN  IF tok.kind = "absent"
        THEN [status |-> 401, detail |-> "Not authenticated", uid |-> 0]
        ELSE IF jwt_decode(tok, t) # "ok" THEN credentials_exception
        ELSE IF tok.sub = NoSub THEN credentials_exception
        ELSE IF uid = 0 THEN credentials_exception
        ELSE IF us[uid].is_blocked
        THEN [status |-> 403, detail |-> "Your account is blocked.", uid |-> 0]
        ELSE [status |-> 200, detail |-> "", uid |-> uid]

\* Mutant: the role check is hierarchical, a moderator passes too.
Mut_admin_required_Hierarchical(tok, us, t) ==
    LET g == get_current_user(tok, us, t)
    IN  IF g.status # 200 THEN g
        ELSE IF us[g.uid].role \notin {"admin", "moderator"}
        THEN [status |-> 403,
              detail |-> "You do not have the necessary permissions to access this resource.",
              uid |-> g.uid]
        ELSE g

\* Depends(admin_required): the gate, then current_user.role != Role.admin
\* (uid: the user the gate returned, also when the role is refused)
admin_required(tok, us, t) ==
    LET g == get_current_user(tok, us, t)
    IN  IF g.status # 200 THEN g
        ELSE IF us[g.uid].role # "admin"
        THEN [status |-> 403,
              detail |-> "You do not have the necessary permissions to access this resource.",
              uid |-> g.uid]
        ELSE g

\* ------------------------------------------------------------ service
\* Each handler: [users |-> the table after it, resp |-> its answer].

\* Mutant: the email lookup before the insert is missing.
Mut_signup_NoEmailCheck(us, email, username, password, salt) ==
    [users |-> Append(us, NewUser(email, username,
                          get_password_hash(password, salt), SignupRole(us))),
     resp |-> [Resp("signup", 200, "User created successfully")
                  EXCEPT !.email = email, !.username = username,
                         !.uid = Len(us) + 1]]

signup(us, email, username, password, salt) ==
    LET req == [Resp("signup", 0, "") EXCEPT !.email = email, !.username = username]
    IN  IF FindByEmail(us, email) # 0
        THEN [users |-> us,
              resp |-> [req EXCEPT !.status = 400,
                                   !.detail = "Email already registered"]]
        ELSE [users |-> Append(us, NewUser(email, username,
                                  get_password_hash(password, salt), SignupRole(us))),
              resp |-> [req EXCEPT !.status = 200,
                                   !.detail = "User created successfully",
                                   !.uid = Len(us) + 1]]

\* 0 for False, else the user's id
authenticate_user(us, email, password) ==
    LET uid == FindByEmail(us, email)
    IN  IF uid = 0 \/ ~verify_password(password, us[uid].hashed_password)
        THEN 0 ELSE uid

\* Mutant: an unknown email is reported as such.
Mut_signin_Enumerates(us, t, email, password) ==
    LET req == [Resp("signin", 0, "") EXCEPT !.email = email]
        uid == authenticate_user(us, email, password)
        refresh == create_refresh_token(email, t)
    IN  IF FindByEmail(us, email) = 0
        THEN [users |-> us,
              resp |-> [req EXCEPT !.status = 404, !.detail = "User not found"]]
        ELSE IF uid = 0
        THEN [users |-> us,
              resp |-> [req EXCEPT !.status = 400,
                                   !.detail = "Incorrect email or password"]]
        ELSE [users |-> [us EXCEPT ![uid].refresh_token = refresh],
              resp |-> [req EXCEPT !.status = 200, !.detail = "bearer", !.uid = uid,
                                   !.access = create_access_token(email, t),
                                   !.refresh = refresh]]

\* Mutant: a successful signin also lifts the user's block.
Mut_signin_Unblocks(us, t, email, password) ==
    LET req == [Resp("signin", 0, "") EXCEPT !.email = email]
        uid == authenticate_user(us, email, password)
        access == create_access_token(us[uid].email, t)
        refresh == create_refresh_token(us[uid].email, t)
    IN  IF uid = 0
        THEN [users |-> us,
              resp |-> [req EXCEPT !.status = 400,
                                   !.detail = "Incorrect email or password"]]
        ELSE [users |-> [us EXCEPT ![uid].refresh_token = refresh,
                                   ![uid].is_blocked = FALSE],
              resp |-> [req EXCEPT !.status = 200, !.detail = "bearer", !.uid = uid,
                                   !.access = access, !.refresh = refresh]]

signin(us, t, email, password) ==
    LET req == [Resp("signin", 0, "") EXCEPT !.email = email]
        uid == authenticate_user(us, email, password)
        access == create_access_token(us[uid].email, t)
        refresh == create_refresh_token(us[uid].email, t)
    IN  IF uid = 0
        THEN [users |-> us,
              resp |-> [req EXCEPT !.status = 400,
                                   !.detail = "Incorrect email or password"]]
        ELSE [users |-> [us EXCEPT ![uid].refresh_token = refresh],
              resp |-> [req EXCEPT !.status = 200, !.detail = "bearer", !.uid = uid,
                                   !.access = access, !.refresh = refresh]]

\* Mutant: signout answers but leaves the stored refresh token.
Mut_signout_KeepsToken(us, t, tok) ==
    LET req == [Resp("signout", 0, "") EXCEPT !.tok = tok]
        g == get_current_user(tok, us, t)
    IN  IF g.status # 200
        THEN [users |-> us,
              resp |-> [req EXCEPT !.status = g.status, !.detail = g.detail,
                                   !.uid = g.uid]]
        ELSE [users |-> us,
              resp |-> [req EXCEPT !.status = 200, !.detail = "Successfully logged out",
                                   !.uid = g.uid]]

\* routes/auth.py logout: Depends(get_current_user), then service signout
signout(us, t, tok) ==
    LET req == [Resp("signout", 0, "") EXCEPT !.tok = tok]
        g == get_current_user(tok, us, t)
    IN  IF g.status # 200
        THEN [users |-> us,
              resp |-> [req EXCEPT !.status = g.status, !.detail = g.detail,
                                   !.uid = g.uid]]
        ELSE [users |-> [us EXCEPT ![g.uid].refresh_token = NoToken],
              resp |-> [req EXCEPT !.status = 200, !.detail = "Successfully logged out",
                                   !.uid = g.uid]]

\* "async def" functions of auth_service.py: calling one yields an awaitable.
\* create_access_token is a plain "def": it returns a str.
CoroutineFunctions ==
    {"create_refresh_token", "refresh_token", "authenticate_user", "signup",
     "signin", "signout", "admin_required", "moderate_required"}

\* "await f(...)": a TypeError unless f(...) is awaitable
AwaitCallOk(f) == f \in CoroutineFunctions

\* Mutant: the token is not compared with the one stored on the user.
Mut_refresh_token_NoStoredCompare(us, t, tok) ==
    LET req == [Resp("refresh", 0, "") EXCEPT !.tok = tok]
        d == jwt_decode(tok, t)
        uid == FindByEmail(us, tok.sub)
        invalid == [req EXCEPT !.status = 401, !.detail = "Invalid token"]
    IN  [users |-> us,
         resp |->
            IF d = "ExpiredSignatureError"
            THEN [req EXCEPT !.status = 401, !.detail = "Token expired"]
            ELSE IF d # "ok" THEN invalid
            ELSE IF tok.sub = NoSub THEN invalid
            ELSE IF uid = 0 THEN invalid
            ELSE IF ~AwaitCallOk("create_access_token")
            THEN [req EXCEPT !.status = 500, !.detail = "TypeError", !.uid = uid]
            ELSE [req EXCEPT !.status = 200, !.detail = "bearer", !.uid = uid,
                             !.access = create_access_token(tok.sub, t)]]

\* Mutant: a refresh token is good for one use, the stored one is cleared
\* once it has matched.
Mut_refresh_token_Consumes(us, t, tok) ==
    LET req == [Resp("refresh", 0, "") EXCEPT !.tok = tok]
        d == jwt_decode(tok, t)
        uid == FindByEmail(us, tok.sub)
        invalid == [users |-> us,
                    resp |-> [req EXCEPT !.status = 401, !.detail = "Invalid token"]]
    IN  IF d = "ExpiredSignatureError"
        THEN [users |-> us,
              resp |-> [req EXCEPT !.status = 401, !.detail = "Token expired"]]
        ELSE IF d # "ok" THEN invalid
        ELSE IF tok.sub = NoSub THEN invalid
        ELSE IF uid = 0 THEN invalid
        ELSE IF us[uid].refresh_token # tok THEN invalid
        ELSE [users |-> [us EXCEPT ![uid].refresh_token = NoToken],
              resp |-> [req EXCEPT !.status = 500, !.detail = "TypeError",
                                   !.uid = uid]]

refresh_token(us, t, tok) ==
    LET req == [Resp("refresh", 0, "") EXCEPT !.tok = tok]
        d == jwt_decode(tok, t)
        uid == FindByEmail(us, tok.sub)
        invalid == [req EXCEPT !.status = 401, !.detail = "Invalid token"]
    IN  [users |-> us,
         resp |->
            IF d = "ExpiredSignatureError"
            THEN [req EXCEPT !.status = 401, !.detail = "Token expired"]
            ELSE IF d # "ok" THEN invalid
            ELSE IF tok.sub = NoSub THEN invalid
            ELSE IF uid = 0 THEN invalid
            ELSE IF us[uid].refresh_token # tok THEN invalid
            ELSE IF ~AwaitCallOk("create_access_token")
            THEN [req EXCEPT !.status = 500, !.detail = "TypeError", !.uid = uid]
            ELSE [req EXCEPT !.status = 200, !.detail = "bearer", !.uid = uid,
                             !.access = create_access_token(tok.sub, t)]]

\* GET /users/me
read_users_me(us, t, tok) ==
    LET g == get_current_user(tok, us, t)
    IN  [users |-> us,
         resp |-> [Resp("me", g.status, g.detail) EXCEPT !.tok = tok, !.uid = g.uid]]

\* Mutant: an id that matches no user is answered as a success.
Mut_promote_to_moderator_NoNotFound(us, t, tok, user_id) ==
    LET req == [Resp("promote", 0, "") EXCEPT !.tok = tok, !.target = user_id]
        g == admin_required(tok, us, t)
        uid == FindById(us, user_id)
    IN  IF g.status # 200
        THEN [users |-> us,
              resp |-> [req EXCEPT !.status = g.status, !.detail = g.detail,
                                   !.uid = g.uid]]
        ELSE IF uid = 0
        THEN [users |-> us, resp |-> [req EXCEPT !.status = 200, !.uid = g.uid]]
        ELSE [users |-> [us EXCEPT ![uid].role = "moderator"],
              resp |-> [req EXCEPT !.status = 200, !.uid = g.uid]]

\* Mutant: promote grants the admin role.
Mut_promote_to_moderator_MakesAdmin(us, t, tok, user_id) ==
    LET req == [Resp("promote", 0, "") EXCEPT !.tok = tok, !.target = user_id]
        g == admin_required(tok, us, t)
        uid == FindById(us, user_id)
    IN  IF g.status # 200
        THEN [users |-> us,
              resp |-> [req EXCEPT !.status = g.status, !.detail = g.detail,
                                   !.uid = g.uid]]
        ELSE IF uid = 0
        THEN [users |-> us,
              resp |-> [req EXCEPT !.status = 404, !.detail = "User not found",
                                   !.uid = g.uid]]
        ELSE [users |-> [us EXCEPT ![uid].role = "admin"],
              resp |-> [req EXCEPT !.status = 200, !.uid = g.uid]]

\* PATCH /users/{user_id}/promote
promote_to_moderator(us, t, tok, user_id) ==
    LET req == [Resp("promote", 0, "") EXCEPT !.tok = tok, !.target = user_id]
        g == admin_required(tok, us, t)
        uid == FindById(us, user_id)
    IN  IF g.status # 200
        THEN [users |-> us,
              resp |-> [req EXCEPT !.status = g.status, !.detail = g.detail,
                                   !.uid = g.uid]]
        ELSE IF uid = 0
        THEN [users |-> us,
              resp |-> [req EXCEPT !.status = 404, !.detail = "User not found",
                                   !.uid = g.uid]]
        ELSE [users |-> [us EXCEPT ![uid].role = "moderator"],
              resp |-> [req EXCEPT !.status = 200, !.uid = g.uid]]

\* Mutant: the caller's own id is not refused.
Mut_block_user_NoSelfCheck(us, t, tok, user_id, block) ==
    LET req == [Resp("block", 0, "") EXCEPT !.tok = tok, !.target = user_id,
                                            !.flag = block]
        g == admin_required(tok, us, t)
        uid == FindById(us, user_id)
    IN  IF g.status # 200
        THEN [users |-> us,
              resp |-> [req EXCEPT !.status = g.status, !.detail = g.detail,
                                   !.uid = g.uid]]
        ELSE IF uid = 0
        THEN [users |-> us,
              resp |-> [req EXCEPT !.status = 404, !.detail = "User not found",
                                   !.uid = g.uid]]
        ELSE [users |-> [us EXCEPT ![uid].is_blocked = block],
              resp |-> [req EXCEPT !.status = 200, !.uid = g.uid]]

\* PATCH /users/{user_id}/block
block_user(us, t, tok, user_id, block) ==
    LET req == [Resp("block", 0, "") EXCEPT !.tok = tok, !.target = user_id,
                                            !.flag = block]
        g == admin_required(tok, us, t)
        uid == FindById(us, user_id)
    IN  IF g.status # 200
        THEN [users |-> us,
              resp |-> [req EXCEPT !.status = g.status, !.detail = g.detail,
                                   !.uid = g.uid]]
        ELSE IF g.uid = user_id
        THEN [users |-> us,
              resp |-> [req EXCEPT !.status = 400, !.detail = "You cannot block yourself.",
                                   !.uid = g.uid]]
        ELSE IF uid = 0
        THEN [users |-> us,
              resp |-> [req EXCEPT !.status = 404, !.detail = "User not found",
                                   !.uid = g.uid]]
        ELSE [users |-> [us EXCEPT ![uid].is_blocked = block],
              resp |-> [req EXCEPT !.status = 200, !.uid = g.uid]]

\* ------------------------------------------------------ initial state
NoArgs ==
    [email |-> "", username |-> "", password |-> "", salt |-> "", role |-> "-",
     status |-> 0]

NoResp == Resp("none", 0, "")

Init ==
    /\ users = <<>>
    /\ now = 0
    /\ ticks = 0
    /\ sessions = <<>>
    /\ last = NoResp
    /\ pc = [p \in Procs |-> "idle"]
    /\ loc = [p \in Procs |-> NoArgs]
    /\ posts = <<>>
    /\ posts_id_seq = 0
    /\ comments = <<>>
    /\ comments_id_seq = 0

\* ------------------------------------------- requests, one at a time
Handled(r) ==
    /\ last = NoResp
    /\ users' = r.users
    /\ last' = r.resp
    /\ UNCHANGED <<now, ticks, pc, loc, content>>

Signup ==
    \E f \in SignupForms, s \in Salts :
        /\ Handled(signup(users, f.email, f.username, f.password, s))
        /\ UNCHANGED sessions

\* The tokens a signin returns are kept, so that later requests can present them.
Signin ==
    \E e \in Emails, p \in Passwords :
        LET r == signin(users, now, e, p)
        IN  /\ Handled(r)
            /\ IF r.resp.status = 200
               THEN /\ Len(sessions) < MaxSignins
                    /\ sessions' = Append(sessions, [access |-> r.resp.access,
                                                     refresh |-> r.resp.refresh])
               ELSE UNCHANGED sessions

Signout ==
    \E tok \in Bearers :
        /\ Handled(signout(users, now, tok))
        /\ UNCHANGED sessions

Refresh ==
    \E tok \in Presentable \ {NoToken} :
        /\ Handled(refresh_token(users, now, tok))
        /\ UNCHANGED sessions

ReadUsersMe ==
    \E tok \in Presentable :
        /\ Handled(read_users_me(users, now, tok))
        /\ UNCHANGED sessions

\* Every stored id, and one that matches no user.
TargetIds == 1..(Len(users) + 1)

Promote ==
    \E tok \in Bearers, id \in TargetIds :
        /\ Handled(promote_to_moderator(users, now, tok, id))
        /\ UNCHANGED sessions

Block ==
    \E tok \in Bearers, id \in TargetIds, b \in BOOLEAN :
        /\ Handled(block_user(users, now, tok, id, b))
        /\ UNCHANGED sessions

\* The clock advances: to just past an access token's life, or to just past
\* a refresh token's life (requests in between share the second they run in).
TickSteps == {AccessTTL + 1, RefreshTTL + 1}

Tick ==
    \E d \in TickSteps :
        /\ last = NoResp
        /\ ticks < MaxTicks
        /\ now' = now + d
        /\ ticks' = ticks + 1
        /\ UNCHANGED <<users, sessions, last, pc, loc, content>>

\* The response goes out to the client; the next request can be taken.
Deliver ==
    /\ last # NoResp
    /\ last' = NoResp
    /\ UNCHANGED <<users, now, ticks, sessions, pc, loc, content>>

Next ==
    \/ Signup
    \/ Signin
    \/ Signout
    \/ Refresh
    \/ ReadUsersMe
    \/ Promote
    \/ Block
    \/ Tick
    \/ Deliver

Spec == Init /\ [][Next]_vars

\* ------------------------------- signup requests that interleave
\* signup suspends at each "await": the email lookup (line 138), the
\* select(User) that decides the role (line 149), the commit (line 153).
\* loc[p].status is the request's answer (0 while it runs).
RaceCheckEmail(p) ==
    \E f \in SignupForms, s \in Salts :
        /\ pc[p] = "idle"
        /\ loc' = [loc EXCEPT ![p] = [email |-> f.email, username |-> f.username,
                                      password |-> f.password, salt |-> s,
                                      role |-> "-",
                                      status |-> IF FindByEmail(users, f.email) # 0
                                                 THEN 400 ELSE 0]]
        /\ pc' = [pc EXCEPT ![p] = IF FindByEmail(users, f.email) # 0
                                   THEN "done" ELSE "read_role"]
        /\ UNCHANGED <<users, now, ticks, sessions, last, content>>

RaceReadRole(p) ==
    /\ pc[p] = "read_role"
    /\ loc' = [loc EXCEPT ![p].role = SignupRole(users)]
    /\ pc' = [pc EXCEPT ![p] = "commit"]
    /\ UNCHANGED <<users, now, ticks, sessions, last, content>>

\* Mutant: the role is decided when the row is inserted, not when the
\* select(User) ran.
Mut_RaceCommit_RoleAtInsert(p) ==
    LET a == loc[p]
    IN  /\ pc[p] = "commit"
        /\ pc' = [pc EXCEPT ![p] = "done"]
        /\ IF FindByEmail(users, a.email) # 0
           THEN /\ UNCHANGED users
                /\ loc' = [loc EXCEPT ![p].status = 500]
           ELSE /\ users' = Append(users, NewUser(a.email, a.username,
                                get_password_hash(a.password, a.salt), SignupRole(users)))
                /\ loc' = [loc EXCEPT ![p].status = 200]
        /\ UNCHANGED <<now, ticks, sessions, last, content>>

\* db.add(new_user); await db.commit(): the unique index on users.email
\* rejects a second row with the same email (IntegrityError, unhandled: 500).
RaceCommit(p) ==
    LET a == loc[p]
    IN  /\ pc[p] = "commit"
        /\ pc' = [pc EXCEPT ![p] = "done"]
        /\ IF FindByEmail(users, a.email) # 0
           THEN /\ UNCHANGED users
                /\ loc' = [loc EXCEPT ![p].status = 500]
           ELSE /\ users' = Append(users, NewUser(a.email, a.username,
                                get_password_hash(a.password, a.salt), a.role))
                /\ loc' = [loc EXCEPT ![p].status = 200]
        /\ UNCHANGED <<now, ticks, sessions, last, content>>

NextRace ==
    \E p \in Procs :
        \/ RaceCheckEmail(p)
        \/ RaceReadRole(p)
        \/ RaceCommit(p)

SpecRace == Init /\ [][NextRace]_vars

\* ----------------------- a refresh and a signout that interleave
\* Each request has its own database session: what refresh_token read at
\* its "await db.execute" (line 92) is what it compares at line 95, whatever
\* has been committed in between. loc[p] holds the request's token, the user
\* row it loaded (uid, stored) and its answer (status 0 while it runs).
RefreshRead(p) ==
    \E tok \in issued :
        LET uid == FindByEmail(users, tok.sub)
            failed == jwt_decode(tok, now) # "ok" \/ tok.sub = NoSub
        IN  /\ pc[p] = "idle"
            /\ loc' = [loc EXCEPT ![p] =
                         [op |-> "refresh", tok |-> tok,
                          uid |-> IF failed THEN 0 ELSE uid,
                          stored |-> IF failed \/ uid = 0 THEN NoToken
                                     ELSE users[uid].refresh_token,
                          status |-> IF failed THEN 401 ELSE 0]]
            /\ pc' = [pc EXCEPT ![p] = IF failed THEN "done" ELSE "refresh_compare"]
            /\ UNCHANGED <<users, now, ticks, sessions, last, content>>

\* line 95 on the row loaded before, then line 98
RefreshCompare(p) ==
    /\ pc[p] = "refresh_compare"
    /\ loc' = [loc EXCEPT ![p].status =
                 IF loc[p].uid = 0 \/ loc[p].stored # loc[p].tok THEN 401
                 ELSE IF ~AwaitCallOk("create_access_token") THEN 500
                 ELSE 200]
    /\ pc' = [pc EXCEPT ![p] = "done"]
    /\ UNCHANGED <<users, now, ticks, sessions, last, content>>

\* logout's Depends(get_current_user): the caller's row is loaded
SignoutAuth(p) ==
    \E tok \in Bearers :
        LET g == get_current_user(tok, users, now)
        IN  /\ pc[p] = "idle"
            /\ loc' = [loc EXCEPT ![p] =
                         [op |-> "signout", tok |-> tok, uid |-> g.uid,
                          stored |-> NoToken,
                          status |-> IF g.status = 200 THEN 0 ELSE g.status]]
            /\ pc' = [pc EXCEPT ![p] = IF g.status = 200 THEN "signout_commit"
                                       ELSE "done"]
            /\ UNCHANGED <<users, now, ticks, sessions, last, content>>

\* user.refresh_token = None; await db.commit()
SignoutCommit(p) ==
    /\ pc[p] = "signout_commit"
    /\ users' = [users EXCEPT ![loc[p].uid].refresh_token = NoToken]
    /\ loc' = [loc EXCEPT ![p].status = 200]
    /\ pc' = [pc EXCEPT ![p] = "done"]
    /\ UNCHANGED <<now, ticks, sessions, last, content>>

NextSignoutRace ==
    \/ Signup
    \/ Signin
    \/ Deliver
    \/ \E p \in Procs :
          \/ RefreshRead(p)
          \/ RefreshCompare(p)
          \/ SignoutAuth(p)
          \/ SignoutCommit(p)

SpecSignoutRace == Init /\ [][NextSignoutRace]_vars

\* ------------------------------------------------- posts and comments
\* rows ever inserted into the posts table, and into the posts and comments
\* tables together
MaxPosts == 2
MaxRows == 3

InsertAllowed == posts_id_seq + comments_id_seq < MaxRows
PostAllowed == posts_id_seq < MaxPosts /\ InsertAllowed

\* if len(tags) > 5
MAX_TAGS == 5

Texts == {"t1", "t2"}
Descriptions == {"d1"}

\* first() / db.get() finding nothing: None
NoComment == [id |-> 0, text |-> "", user_id |-> 0, post_id |-> 0]

\* services/roles.py line 8 imports auth_service from a module that is not part
\* of the sources at hand; its get_current_user is taken to be the
\* authentication gate the routes depend on.
auth_service_get_current_user(tok, us, t) == get_current_user(tok, us, t)

\* services/roles.py RoleChecker(allowed_roles): the authenticated user, or
\* 403 when the user's role is not one of allowed_roles
RoleChecker(allowed_roles, tok, us, t) ==
    LET g == auth_service_get_current_user(tok, us, t)
    IN  IF g.status # 200 THEN g
        ELSE IF us[g.uid].role \notin allowed_roles
        THEN [status |-> 403,
              detail |-> "You do not have permission to perform this action",
              uid |-> g.uid]
        ELSE g

\* db.get(Post, post_id): 0 for None
FindPost(ps, post_id) ==
    IF \E i \in DOMAIN ps : ps[i].id = post_id
    THEN CHOOSE i \in DOMAIN ps : ps[i].id = post_id
    ELSE 0

\* POST /upload/: the role check, then the body. uploaded: whether the image
\* host took both uploads (any exception in the body is answered with 500).
upload_file(us, t, tok, ps, seq, description, ntags, uploaded) ==
    LET req == [Resp("upload", 0, "") EXCEPT !.tok = tok]
        g == RoleChecker(Role, tok, us, t)
        id == seq + 1
    IN  IF g.status # 200
        THEN [posts |-> ps, seq |-> seq,
              resp |-> [req EXCEPT !.status = g.status, !.detail = g.detail,
                                   !.uid = g.uid]]
        ELSE IF ntags > MAX_TAGS
        THEN [posts |-> ps, seq |-> seq,
              resp |-> [req EXCEPT !.status = 400,
                                   !.detail = "You can only add up to 5 tags.",
                                   !.uid = g.uid]]
        ELSE IF ~uploaded
        THEN [posts |-> ps, seq |-> seq,
              resp |-> [req EXCEPT !.status = 500, !.uid = g.uid]]
        ELSE [posts |-> Append(ps, [id |-> id, url |-> <<"secure_url", id>>,
                                    qr_code |-> <<"qr_secure_url", id>>,
                                    description |-> <<description>>,
                                    owner_id |-> g.uid]),
              seq |-> id,
              resp |-> [req EXCEPT !.status = 200, !.uid = g.uid, !.target = id]]

\* What a CommentRepository method answered (the comment it returned, or the
\* HTTPException it raised), with the call's arguments.
CResp(op, status, detail) ==
    [op |-> op, status |-> status, detail |-> detail,
     id |-> 0, post_id |-> 0, user_id |-> 0, text |-> "", comment |-> NoComment]

\* handle_exception: rollback, then HTTPException(500)
handle_exception(req) ==
    [req EXCEPT !.status = 500, !.detail = "Internal Server Error"]

\* select(Comment).where(Comment.id == comment_id) ... first()
get_comment_by_id(cs, comment_id) ==
    IF \E i \in DOMAIN cs : cs[i].id = comment_id
    THEN cs[CHOOSE i \in DOMAIN cs : cs[i].id = comment_id]
    ELSE NoComment

\* Mutant: the new id is one more than the greatest stored id, so the id of a
\* deleted last comment is handed out again.
Mut_create_comment_ReusesId(cs, seq, us, ps, post_id, user_id, text) ==
    LET req == [CResp("create_comment", 0, "") EXCEPT !.post_id = post_id,
                                                      !.user_id = user_id,
                                                      !.text = text]
        ids == {cs[i].id : i \in DOMAIN cs} \cup {0}
        id == 1 + CHOOSE m \in ids : \A k \in ids : k <= m
        db_comment == [id |-> id, text |-> text, user_id |-> user_id,
                       post_id |-> post_id]
    IN  IF user_id \notin DOMAIN us \/ FindPost(ps, post_id) = 0
        THEN [comments |-> cs, seq |-> seq, resp |-> handle_exception(req)]
        ELSE [comments |-> Append(cs, db_comment), seq |-> seq + 1,
              resp |-> [req EXCEPT !.status = 200, !.comment = db_comment]]

\* Mutant: the two foreign keys are stored the other way round.
Mut_create_comment_SwapsIds(cs, seq, us, ps, post_id, user_id, text) ==
    LET req == [CResp("create_comment", 0, "") EXCEPT !.post_id = post_id,
                                                      !.user_id = user_id,
                                                      !.text = text]
        db_comment == [id |-> seq + 1, text |-> text, user_id |-> post_id,
                       post_id |-> user_id]
    IN  IF user_id \notin DOMAIN us \/ FindPost(ps, post_id) = 0
        THEN [comments |-> cs, seq |-> seq, resp |-> handle_exception(req)]
        ELSE [comments |-> Append(cs, db_comment), seq |-> seq + 1,
              resp |-> [req EXCEPT !.status = 200, !.comment = db_comment]]

\* The insert fails (IntegrityError, then handle_exception) when user_id or
\* post_id references no row.
create_comment(cs, seq, us, ps, post_id, user_id, text) ==
    LET req == [CResp("create_comment", 0, "") EXCEPT !.post_id = post_id,
                                                      !.user_id = user_id,
                                                      !.text = text]
        db_comment == [id |-> seq + 1, text |-> text, user_id |-> user_id,
                       post_id |-> post_id]
    IN  IF user_id \notin DOMAIN us \/ FindPost(ps, post_id) = 0
        THEN [comments |-> cs, seq |-> seq, resp |-> handle_exception(req)]
        ELSE [comments |-> Append(cs, db_comment), seq |-> seq + 1,
              resp |-> [req EXCEPT !.status = 200, !.comment = db_comment]]

\* The HTTPException(404) is raised inside the "try" and caught by its
\* "except Exception": handle_exception answers 500.
\* moved: the UPDATE writes a new row version; whether the store keeps it in
\* the old row's place or puts it after the rows written since.
update_comment(cs, comment_id, new_text, moved) ==
    LET req == [CResp("update_comment", 0, "") EXCEPT !.id = comment_id,
                                                      !.text = new_text]
        db_comment == get_comment_by_id(cs, comment_id)
        updated == [db_comment EXCEPT !.text = new_text]
    IN  IF db_comment # NoComment
        THEN [comments |->
                 IF moved
                 THEN Append(SelectSeq(cs, LAMBDA c : c.id # comment_id), updated)
                 ELSE [i \in DOMAIN cs |->
                          IF cs[i].id = comment_id THEN updated ELSE cs[i]],
              resp |-> [req EXCEPT !.status = 200, !.comment = updated]]
        ELSE [comments |-> cs, resp |-> handle_exception(req)]

delete_comment(cs, comment_id) ==
    LET req == [CResp("delete_comment", 0, "") EXCEPT !.id = comment_id]
        db_comment == get_comment_by_id(cs, comment_id)
    IN  IF db_comment # NoComment
        THEN [comments |-> SelectSeq(cs, LAMBDA c : c.id # comment_id),
              resp |-> [req EXCEPT !.status = 200]]
        ELSE [comments |-> cs, resp |-> handle_exception(req)]

Limits == {1, 2}
Offsets == {0, 1}

\* .offset(offset).limit(limit) on the rows in the order the store returns them
Paginate(rows, limit, offset) ==
    SubSeq(rows, offset + 1,
           IF offset + limit < Len(rows) THEN offset + limit ELSE Len(rows))

\* select(Comment).where(Comment.post_id == post_id): no ORDER BY
get_comments_by_post_id(cs, post_id, limit, offset) ==
    Paginate(SelectSeq(cs, LAMBDA c : c.post_id = post_id), limit, offset)

\* select(Comment).where(Comment.user_id == user_id): no ORDER BY
get_comments_by_user_id(cs, user_id, limit, offset) ==
    Paginate(SelectSeq(cs, LAMBDA c : c.user_id = user_id), limit, offset)

\* What a listing returned, with the call's arguments.
LResp(op, key, limit, offset, rows) ==
    [op |-> op, status |-> 200, detail |-> "", key |-> key, limit |-> limit,
     offset |-> offset, rows |-> rows]

\* The signins ahead of the content routes: each returns tokens that no
\* earlier signin returned (a second signin of a user in the same second
\* returns the same strings and gives the routes nothing new to present).
SigninFresh ==
    \E e \in Emails, p \in Passwords :
        LET r == signin(users, now, e, p)
            pair == [access |-> r.resp.access, refresh |-> r.resp.refresh]
        IN  /\ Handled(r)
            /\ IF r.resp.status = 200
               THEN /\ \A i \in DOMAIN sessions : sessions[i] # pair
                    /\ Len(sessions) < MaxSignins
                    /\ sessions' = Append(sessions, pair)
               ELSE UNCHANGED sessions

UploadFile ==
    \E tok \in Bearers, d \in Descriptions, n \in {0, MAX_TAGS + 1},
       uploaded \in BOOLEAN :
        LET r == upload_file(users, now, tok, posts, posts_id_seq, d, n, uploaded)
        IN  /\ last = NoResp
            /\ PostAllowed
            /\ posts' = r.posts
            /\ posts_id_seq' = r.seq
            /\ last' = r.resp
            /\ UNCHANGED <<users, now, ticks, sessions, pc, loc,
                           comments, comments_id_seq>>

\* The repository called with every stored id and one that matches no row.
CreateComment ==
    \E post_id \in 1..(posts_id_seq + 1), user_id \in 1..(Len(users) + 1),
       text \in Texts :
        LET r == create_comment(comments, comments_id_seq, users, posts,
                                post_id, user_id, text)
        IN  /\ last = NoResp
            /\ InsertAllowed
            /\ comments' = r.comments
            /\ comments_id_seq' = r.seq
            /\ last' = r.resp
            /\ UNCHANGED <<users, now, ticks, sessions, pc, loc,
                           posts, posts_id_seq>>

UpdateComment ==
    \E comment_id \in 1..(comments_id_seq + 1), new_text \in Texts,
       moved \in BOOLEAN :
        LET r == update_comment(comments, comment_id, new_text, moved)
        IN  /\ last = NoResp
            /\ comments' = r.comments
            /\ last' = r.resp
            /\ UNCHANGED <<users, now, ticks, sessions, pc, loc,
                           posts, posts_id_seq, comments_id_seq>>

DeleteComment ==
    \E comment_id \in 1..(comments_id_seq + 1) :
        LET r == delete_comment(comments, comment_id)
        IN  /\ last = NoResp
            /\ comments' = r.comments
            /\ last' = r.resp
            /\ UNCHANGED <<users, now, ticks, sessions, pc, loc,
                           posts, posts_id_seq, comments_id_seq>>

GetCommentsByPostId ==
    \E post_id \in 1..(posts_id_seq + 1), limit \in Limits, offset \in Offsets :
        /\ last = NoResp
        /\ last' = LResp("get_comments_by_post_id", post_id, limit, offset,
                         get_comments_by_post_id(comments, post_id, limit, offset))
        /\ UNCHANGED <<users, now, ticks, sessions, pc, loc, content>>

GetCommentsByUserId ==
    \E user_id \in 1..(Len(users) + 1), limit \in Limits, offset \in Offsets :
        /\ last = NoResp
        /\ last' = LResp("get_comments_by_user_id", user_id, limit, offset,
                         get_comments_by_user_id(comments, user_id, limit, offset))
        /\ UNCHANGED <<users, now, ticks, sessions, pc, loc, content>>

NextComments ==
    \/ Signup
    \/ SigninFresh
    \/ Deliver
    \/ UploadFile
    \/ CreateComment
    \/ UpdateComment
    \/ DeleteComment
    \/ GetCommentsByPostId
    \/ GetCommentsByUserId

SpecComments == Init /\ [][NextComments]_vars

\* ------------------------------------------------------- photo routes
\* GET /get_qr_code/{post_id}: no authentication. The HTTPException(404) is
\* raised inside the "try" and caught by its "except Exception", which raises
\* HTTPException(500, str(e)); str(e) reads "404: Post not found".
get_qr_code(ps, post_id) ==
    LET req == [Resp("get_qr_code", 0, "") EXCEPT !.target = post_id]
    IN  [posts |-> ps,
         resp |-> IF FindPost(ps, post_id) = 0
                  THEN [req EXCEPT !.status = 500,
                                   !.detail = "404: Post not found"]
                  ELSE [req EXCEPT !.status = 200]]

\* resize_image, crop_image, rotate_image and apply_effect share their body:
\* the gate, then inside "try": the post or 404, two uploads to the image
\* host, a new Post owned by the source post's owner. Every exception raised
\* inside the "try", the 404 included, is answered with 500.
TransformImage(op, note, us, t, tok, ps, seq, post_id, uploaded) ==
    LET req == [Resp(op, 0, "") EXCEPT !.tok = tok, !.target = post_id]
        g == get_current_user(tok, us, t)
        i == FindPost(ps, post_id)
        id == seq + 1
    IN  IF g.status # 200
        THEN [posts |-> ps, seq |-> seq,
              resp |-> [req EXCEPT !.status = g.status, !.detail = g.detail]]
        ELSE IF i = 0
        THEN [posts |-> ps, seq |-> seq,
              resp |-> [req EXCEPT !.status = 500, !.uid = g.uid,
                                   !.detail = "404: Post not found"]]
        ELSE IF ~uploaded
        THEN [posts |-> ps, seq |-> seq,
              resp |-> [req EXCEPT !.status = 500, !.uid = g.uid]]
        ELSE [posts |-> Append(ps, [id |-> id, url |-> <<"secure_url", id>>,
                                    qr_code |-> <<"qr_secure_url", id>>,
                                    description |-> <<note, ps[i].url>>,
                                    owner_id |-> ps[i].owner_id]),
              seq |-> id,
              resp |-> [req EXCEPT !.status = 200, !.uid = g.uid]]

resize_image(us, t, tok, ps, seq, post_id, uploaded) ==
    TransformImage("resize_image", "origin: ", us, t, tok, ps, seq, post_id,
                   uploaded)

crop_image(us, t, tok, ps, seq, post_id, uploaded) ==
    TransformImage("crop_image", "cropped from: ", us, t, tok, ps, seq, post_id,
                   uploaded)

rotate_image(us, t, tok, ps, seq, post_id, uploaded) ==
    TransformImage("rotate_image", "rotated from: ", us, t, tok, ps, seq,
                   post_id, uploaded)

apply_effect(us, t, tok, ps, seq, post_id, uploaded) ==
    TransformImage("apply_effect", "effect applied to: ", us, t, tok, ps, seq,
                   post_id, uploaded)

\* Mutant: a moderator may delete any picture, as in update_description.
Mut_delete_picture_ModeratorToo(us, t, tok, ps, cs, post_id, destroyed) ==
    LET req == [Resp("delete_picture", 0, "") EXCEPT !.tok = tok,
                                                     !.target = post_id]
        g == get_current_user(tok, us, t)
        i == FindPost(ps, post_id)
        same == [posts |-> ps, comments |-> cs]
    IN  IF g.status # 200
        THEN same @@ [resp |-> [req EXCEPT !.status = g.status,
                                           !.detail = g.detail]]
        ELSE IF i = 0
        THEN same @@ [resp |-> [req EXCEPT !.status = 500, !.uid = g.uid,
                                    !.detail = "404: Post not found"]]
        ELSE IF ps[i].owner_id # g.uid
                /\ us[g.uid].role \notin {"admin", "moderator"}
        THEN same @@ [resp |-> [req EXCEPT !.status = 500, !.uid = g.uid,
                  !.detail = "403: Not authorized to delete this picture"]]
        ELSE IF ~destroyed
        THEN same @@ [resp |-> [req EXCEPT !.status = 500, !.uid = g.uid]]
        ELSE [posts |-> SelectSeq(ps, LAMBDA q : q.id # post_id),
              comments |-> SelectSeq(cs, LAMBDA c : c.post_id # post_id),
              resp |-> [req EXCEPT !.status = 200, !.uid = g.uid]]

\* DELETE /delete_picture/{post_id}: the gate, then inside "try": the post or
\* 404, the owner-or-admin check or 403, the image host's destroy calls, the
\* delete (Post.comments cascades "all, delete-orphan"). destroyed: whether
\* the image host's calls returned. The 404 and the 403 are answered as 500.
delete_picture(us, t, tok, ps, cs, post_id, destroyed) ==
    LET req == [Resp("delete_picture", 0, "") EXCEPT !.tok = tok,
                                                     !.target = post_id]
        g == get_current_user(tok, us, t)
        i == FindPost(ps, post_id)
        same == [posts |-> ps, comments |-> cs]
    IN  IF g.status # 200
        THEN same @@ [resp |-> [req EXCEPT !.status = g.status,
                                           !.detail = g.detail]]
        ELSE IF i = 0
        THEN same @@ [resp |-> [req EXCEPT !.status = 500, !.uid = g.uid,
                                    !.detail = "404: Post not found"]]
        ELSE IF ps[i].owner_id # g.uid /\ us[g.uid].role # "admin"
        THEN same @@ [resp |-> [req EXCEPT !.status = 500, !.uid = g.uid,
                  !.detail = "403: Not authorized to delete this picture"]]
        ELSE IF ~destroyed
        THEN same @@ [resp |-> [req EXCEPT !.status = 500, !.uid = g.uid]]
        ELSE [posts |-> SelectSeq(ps, LAMBDA q : q.id # post_id),
              comments |-> SelectSeq(cs, LAMBDA c : c.post_id # post_id),
              resp |-> [req EXCEPT !.status = 200, !.uid = g.uid]]

GetQrCode ==
    \E post_id \in 1..(posts_id_seq + 1) :
        /\ last = NoResp
        /\ last' = get_qr_code(posts, post_id).resp
        /\ UNCHANGED <<users, now, ticks, sessions, pc, loc, content>>

\* A route that may add a post: r is what its handler returned.
PostAdded(r) ==
    /\ last = NoResp
    /\ PostAllowed
    /\ posts' = r.posts
    /\ posts_id_seq' = r.seq
    /\ last' = r.resp
    /\ UNCHANGED <<users, now, ticks, sessions, pc, loc, comments,
                   comments_id_seq>>

ResizeImage ==
    \E tok \in Bearers, post_id \in 1..(posts_id_seq + 1), uploaded \in BOOLEAN :
        PostAdded(resize_image(users, now, tok, posts, posts_id_seq, post_id,
                               uploaded))

CropImage ==
    \E tok \in Bearers, post_id \in 1..(posts_id_seq + 1), uploaded \in BOOLEAN :
        PostAdded(crop_image(users, now, tok, posts, posts_id_seq, post_id,
                             uploaded))

RotateImage ==
    \E tok \in Bearers, post_id \in 1..(posts_id_seq + 1), uploaded \in BOOLEAN :
        PostAdded(rotate_image(users, now, tok, posts, posts_id_seq, post_id,
                               uploaded))

ApplyEffect ==
    \E tok \in Bearers, post_id \in 1..(posts_id_seq + 1), uploaded \in BOOLEAN :
        PostAdded(apply_effect(users, now, tok, posts, posts_id_seq, post_id,
                               uploaded))

DeletePicture ==
    \E tok \in Bearers, post_id \in 1..(posts_id_seq + 1), destroyed \in BOOLEAN :
        LET r == delete_picture(users, now, tok, posts, comments, post_id,
                                destroyed)
        IN  /\ last = NoResp
            /\ posts' = r.posts
            /\ comments' = r.comments
            /\ last' = r.resp
            /\ UNCHANGED <<users, now, ticks, sessions, pc, loc, posts_id_seq,
                           comments_id_seq>>

NextPhotos ==
    \/ Signup
    \/ SigninFresh
    \/ Promote
    \/ Deliver
    \/ UploadFile
    \/ GetQrCode
    \/ ResizeImage
    \/ CropImage
    \/ RotateImage
    \/ ApplyEffect
    \/ DeletePicture

SpecPhotos == Init /\ [][NextPhotos]_vars

\* ------------------------------------------------ routes/comments.py
\* What a comment route answered, with the request it answered.
RResp(op, status, detail) ==
    [op |-> op, status |-> status, detail |-> detail, tok |-> NoToken,
     uid |-> 0, target |-> 0, text |-> "", comment |-> NoComment]

\* The dependencies of a comment route, in the order they are resolved: the
\* RoleChecker of the decorator, then the get_current_user of the signature.
RouteDependencies(allowed_roles, tok, us, t) ==
    LET rc == RoleChecker(allowed_roles, tok, us, t)
    IN  IF rc.status # 200 THEN rc ELSE get_current_user(tok, us, t)

\* POST /posts/{post_id}/comments/
route_create_comment(us, t, tok, ps, cs, seq, post_id, text) ==
    LET req == [RResp("route_create_comment", 0, "") EXCEPT !.tok = tok,
                                                            !.target = post_id,
                                                            !.text = text]
        g == RouteDependencies(Role, tok, us, t)
        r == create_comment(cs, seq, us, ps, post_id, g.uid, text)
    IN  IF g.status # 200
        THEN [comments |-> cs, seq |-> seq,
              resp |-> [req EXCEPT !.status = g.status, !.detail = g.detail,
                                   !.uid = g.uid]]
        ELSE IF FindPost(ps, post_id) = 0
        THEN [comments |-> cs, seq |-> seq,
              resp |-> [req EXCEPT !.status = 404, !.detail = "Post not found",
                                   !.uid = g.uid]]
        ELSE [comments |-> r.comments, seq |-> r.seq,
              resp |-> [req EXCEPT !.status = IF r.resp.status = 200 THEN 201
                                              ELSE r.resp.status,
                                   !.detail = r.resp.detail,
                                   !.uid = g.uid,
                                   !.comment = r.resp.comment]]

\* Mutant: an admin or a moderator may update any comment.
Mut_route_update_comment_StaffToo(us, t, tok, cs, comment_id, text, moved) ==
    LET req == [RResp("route_update_comment", 0, "") EXCEPT !.tok = tok,
                                                            !.target = comment_id,
                                                            !.text = text]
        g == RouteDependencies(Role, tok, us, t)
        db_comment == get_comment_by_id(cs, comment_id)
        r == update_comment(cs, comment_id, text, moved)
    IN  IF g.status # 200
        THEN [comments |-> cs,
              resp |-> [req EXCEPT !.status = g.status, !.detail = g.detail,
                                   !.uid = g.uid]]
        ELSE IF db_comment = NoComment
        THEN [comments |-> cs,
              resp |-> [req EXCEPT !.status = 404,
                                   !.detail = "Comment not found",
                                   !.uid = g.uid]]
        ELSE IF db_comment.user_id # g.uid /\ us[g.uid].role = "user"
        THEN [comments |-> cs,
              resp |-> [req EXCEPT !.status = 403,
                                   !.detail = "Not authorized to update this comment",
                                   !.uid = g.uid]]
        ELSE [comments |-> r.comments,
              resp |-> [req EXCEPT !.status = r.resp.status,
                                   !.detail = r.resp.detail,
                                   !.uid = g.uid,
                                   !.comment = r.resp.comment]]

\* PUT /comments/{comment_id}/
route_update_comment(us, t, tok, cs, comment_id, text, moved) ==
    LET req == [RResp("route_update_comment", 0, "") EXCEPT !.tok = tok,
                                                            !.target = comment_id,
                                                            !.text = text]
        g == RouteDependencies(Role, tok, us, t)
        db_comment == get_comment_by_id(cs, comment_id)
        r == update_comment(cs, comment_id, text, moved)
    IN  IF g.status # 200
        THEN [comments |-> cs,
              resp |-> [req EXCEPT !.status = g.status, !.detail = g.detail,
                                   !.uid = g.uid]]
        ELSE IF db_comment = NoComment
        THEN [comments |-> cs,
              resp |-> [req EXCEPT !.status = 404,
                                   !.detail = "Comment not found",
                                   !.uid = g.uid]]
        ELSE IF db_comment.user_id # g.uid
        THEN [comments |-> cs,
              resp |-> [req EXCEPT !.status = 403,
                                   !.detail = "Not authorized to update this comment",
                                   !.uid = g.uid]]
        ELSE [comments |-> r.comments,
              resp |-> [req EXCEPT !.status = r.resp.status,
                                   !.detail = r.resp.detail,
                                   !.uid = g.uid,
                                   !.comment = r.resp.comment]]

\* Mutant: every role passes the role check, and the author of a comment may
\* delete it too.
Mut_route_delete_comment_AuthorToo(us, t, tok, cs, comment_id) ==
    LET req == [RResp("route_delete_comment", 0, "") EXCEPT !.tok = tok,
                                                            !.target = comment_id]
        g == RouteDependencies(Role, tok, us, t)
        db_comment == get_comment_by_id(cs, comment_id)
        r == delete_comment(cs, comment_id)
    IN  IF g.status # 200
        THEN [comments |-> cs,
              resp |-> [req EXCEPT !.status = g.status, !.detail = g.detail,
                                   !.uid = g.uid]]
        ELSE IF db_comment = NoComment
        THEN [comments |-> cs,
              resp |-> [req EXCEPT !.status = 404,
                                   !.detail = "Comment not found",
                                   !.uid = g.uid]]
        ELSE IF /\ us[g.uid].role \notin {"admin", "moderator"}
                /\ db_comment.user_id # g.uid
        THEN [comments |-> cs,
              resp |-> [req EXCEPT !.status = 403,
                                   !.detail = "Not authorized to delete this comment",
                                   !.uid = g.uid]]
        ELSE [comments |-> r.comments,
              resp |-> [req EXCEPT !.status = IF r.resp.status = 200 THEN 204
                                              ELSE r.resp.status,
                                   !.detail = IF r.resp.status = 200
                                              THEN "Comment deleted"
                                              ELSE r.resp.detail,
                                   !.uid = g.uid]]

\* DELETE /comments/{comment_id}/
route_delete_comment(us, t, tok, cs, comment_id) ==
    LET req == [RResp("route_delete_comment", 0, "") EXCEPT !.tok = tok,
                                                            !.target = comment_id]
        g == RouteDependencies({"admin", "moderator"}, tok, us, t)
        db_comment == get_comment_by_id(cs, comment_id)
        r == delete_comment(cs, comment_id)
    IN  IF g.status # 200
        THEN [comments |-> cs,
              resp |-> [req EXCEPT !.status = g.status, !.detail = g.detail,
                                   !.uid = g.uid]]
        ELSE IF db_comment = NoComment
        THEN [comments |-> cs,
              resp |-> [req EXCEPT !.status = 404,
                                   !.detail = "Comment not found",
                                   !.uid = g.uid]]
        ELSE IF us[g.uid].role \notin {"admin", "moderator"}
        THEN [comments |-> cs,
              resp |-> [req EXCEPT !.status = 403,
                                   !.detail = "Not authorized to delete this comment",
                                   !.uid = g.uid]]
        ELSE [comments |-> r.comments,
              resp |-> [req EXCEPT !.status = IF r.resp.status = 200 THEN 204
                                              ELSE r.resp.status,
                                   !.detail = IF r.resp.status = 200
                                              THEN "Comment deleted"
                                              ELSE r.resp.detail,
                                   !.uid = g.uid]]

\* The comment routes called with every stored id and one that matches no
\* row; a comment is posted with one text and edited to another.
PostedTexts == {"t1"}
EditedTexts == {"t2"}

RouteCreateComment ==
    \E tok \in Bearers, post_id \in 1..(posts_id_seq + 1),
       text \in PostedTexts :
        LET r == route_create_comment(users, now, tok, posts, comments,
                                      comments_id_seq, post_id, text)
        IN  /\ last = NoResp
            /\ InsertAllowed
            /\ comments' = r.comments
            /\ comments_id_seq' = r.seq
            /\ last' = r.resp
            /\ UNCHANGED <<users, now, ticks, sessions, pc, loc,
                           posts, posts_id_seq>>

RouteUpdateComment ==
    \E tok \in Bearers, comment_id \in 1..(comments_id_seq + 1),
       text \in EditedTexts, moved \in BOOLEAN :
        LET r == route_update_comment(users, now, tok, comments, comment_id,
                                      text, moved)
        IN  /\ last = NoResp
            /\ comments' = r.comments
            /\ last' = r.resp
            /\ UNCHANGED <<users, now, ticks, sessions, pc, loc,
                           posts, posts_id_seq, comments_id_seq>>

RouteDeleteComment ==
    \E tok \in Bearers, comment_id \in 1..(comments_id_seq + 1) :
        LET r == route_delete_comment(users, now, tok, comments, comment_id)
        IN  /\ last = NoResp
            /\ comments' = r.comments
            /\ last' = r.resp
            /\ UNCHANGED <<users, now, ticks, sessions, pc, loc,
                           posts, posts_id_seq, comments_id_seq>>

NextCommentRoutes ==
    \/ Signup
    \/ SigninFresh
    \/ Promote
    \/ Deliver
    \/ UploadFile
    \/ RouteCreateComment
    \/ RouteUpdateComment
    \/ RouteDeleteComment

SpecCommentRoutes == Init /\ [][NextCommentRoutes]_vars


\* ------------------------------------------------------------ claims
GatedOps == {"me", "signout", "promote", "block"}

Admins == {i \in DOMAIN users : users[i].role = "admin"}

\* tok is a correctly signed, unexpired token whose subject is user uid's email
ValidTokenOf(tok, uid) ==
    /\ tok.kind = "signed"
    /\ tok.exp >= now
    /\ uid \in DOMAIN users
    /\ users[uid].email = tok.sub

\* C1: with requests one at a time from an empty store, the first successful
\* signup creates a user with role admin and every later successful signup a
\* user with role user.
C1_FirstSignupAdmin ==
    (last.op = "signup" /\ last.status = 200) =>
        /\ last.uid = Len(users)
        /\ users[last.uid].role = IF last.uid = 1 THEN "admin" ELSE "user"

C1_Witness ==
    /\ last.op = "signup"
    /\ last.status = 200
    /\ last.uid = 2
    /\ users[1].role = "admin"
    /\ users[2].role = "user"

\* C2 (as claimed): with requests one at a time, once a user exists exactly
\* one user holds the role admin, and it is the first user that signed up.
C2_Original ==
    Len(users) >= 1 => Admins = {1}

\* C3: two signups with different emails that both read the empty store before
\* either commits both create an admin.
C3_BothAdmin ==
    \A p, q \in Procs :
        ( /\ p # q
          /\ loc[p].status = 200 /\ loc[q].status = 200
          /\ loc[p].role = "admin" /\ loc[q].role = "admin"
          /\ loc[p].email # loc[q].email )
        => /\ FindByEmail(users, loc[p].email) # 0
           /\ users[FindByEmail(users, loc[p].email)].role = "admin"

C3_Witness ==
    /\ \A p \in {1, 2} : loc[p].status = 200 /\ loc[p].role = "admin"
    /\ Cardinality(Admins) = 2

\* C4 (as claimed): signup fails with the duplicate error, changing nothing,
\* whenever the email or the username is already registered; no two users
\* share an email or a username.
C4_Original ==
    /\ [](\A i, j \in DOMAIN users :
            (users[i].email = users[j].email
                \/ users[i].username = users[j].username) => i = j)
    /\ [][ ( /\ last'.op = "signup"
             /\ \E i \in DOMAIN users :
                    \/ users[i].email = last'.email
                    \/ users[i].username = last'.username )
           => (last'.status = 400 /\ users' = users) ]_vars

\* C4 (amended): signup fails with 400 "Email already registered", adding no
\* user and changing no record, whenever the email is already registered; no
\* two users share an email. (A registered username does not make it fail.)
C4_EmailUnique ==
    /\ [](\A i, j \in DOMAIN users : users[i].email = users[j].email => i = j)
    /\ [][ (last'.op = "signup" /\ FindByEmail(users, last'.email) # 0)
           => ( /\ last'.status = 400
                /\ last'.detail = "Email already registered"
                /\ users' = users ) ]_vars

C4_Witness ==
    /\ last.op = "signup"
    /\ last.status = 400
    /\ FindByEmail(users, last.email) # 0

\* C5: the gate returns a user only for a correctly signed, unexpired token
\* whose subject is the email of an existing, non-blocked user; a token that is
\* missing, malformed, wrongly signed, expired or of an unknown subject gets
\* 401, at whatever time it is presented.
C5_GateOnlyValid ==
    last.op \in GatedOps =>
        /\ last.uid # 0 =>
              /\ ValidTokenOf(last.tok, last.uid)
              /\ ~users[last.uid].is_blocked
        /\ ( \/ last.tok.kind # "signed"
             \/ last.tok.exp < now
             \/ FindByEmail(users, last.tok.sub) = 0 )
           => (last.status = 401 /\ last.uid = 0)

\* an issued token, presented after its exp, is refused
C5_Witness ==
    /\ last.op = "me"
    /\ last.tok \in issued
    /\ last.tok.exp < now
    /\ last.status = 401

\* C6: a blocked user's otherwise valid token gets 403 (not 401) on every
\* gated request, a user who is not blocked is let through, and the step in
\* which an admin unblocks a blocked user turns the gate's answer to that
\* user's unexpired tokens from 403 to accepted.
C6_BlockedForbidden ==
    /\ [](last.op \in GatedOps =>
            \A u \in DOMAIN users :
                ValidTokenOf(last.tok, u) =>
                    IF users[u].is_blocked
                    THEN /\ last.status = 403
                         /\ last.detail = "Your account is blocked."
                         /\ last.uid = 0
                    ELSE last.uid = u)
    /\ [][ ( /\ last'.op = "block" /\ last'.status = 200 /\ ~last'.flag
             /\ users[last'.target].is_blocked )
           => \A tok \in issued :
                ValidTokenOf(tok, last'.target) =>
                    /\ get_current_user(tok, users, now).status = 403
                    /\ get_current_user(tok, users', now') =
                          [status |-> 200, detail |-> "", uid |-> last'.target]
         ]_vars

C6_Witness ==
    /\ last.op = "me"
    /\ last.status = 403
    /\ last.tok \in issued
    /\ last.tok.exp >= now

\* C7 (as claimed): refresh with the refresh token of the user's latest
\* signin, unexpired and with no signout since, succeeds and returns a new
\* access token for that user; after that user's signout it fails with the
\* invalid-token error.
C7_Original ==
    ( /\ last.op = "refresh"
      /\ last.tok.scope = "refresh_token"
      /\ \E u \in DOMAIN users : ValidTokenOf(last.tok, u) )
    => LET u == FindByEmail(users, last.tok.sub)
       IN  /\ users[u].refresh_token = last.tok
                => /\ last.status = 200
                   /\ last.access = create_access_token(last.tok.sub, now)
           /\ users[u].refresh_token = NoToken
                => (last.status = 401 /\ last.detail = "Invalid token")

\* C8 (as claimed): after a second successful signin of a user, refresh with
\* the refresh token of the earlier signin, still unexpired, fails with the
\* invalid-token error.
C8_Original ==
    \A i, j \in DOMAIN sessions :
        ( /\ i < j
          /\ sessions[i].refresh.sub = sessions[j].refresh.sub
          /\ last.op = "refresh"
          /\ last.tok = sessions[i].refresh
          /\ last.tok.exp >= now )
        => (last.status = 401 /\ last.detail = "Invalid token")

\* C9: refresh fails with the invalid-token error for every correctly signed,
\* unexpired token whose scope is not refresh_token.
C9_RefreshRejectsOtherScope ==
    ( /\ last.op = "refresh"
      /\ last.tok.kind = "signed"
      /\ last.tok.exp >= now
      /\ last.tok.scope # "refresh_token" )
    => (last.status = 401 /\ last.detail = "Invalid token")

\* an unexpired access token returned by a signin, refused by refresh
C9_Witness ==
    /\ last.op = "refresh"
    /\ \E i \in DOMAIN sessions : last.tok = sessions[i].access
    /\ last.tok.exp >= now
    /\ last.status = 401
    /\ last.detail = "Invalid token"

\* C10: a failed signin answers the same (400, "Incorrect email or password",
\* no token) whether the email is unknown or the password wrong, and changes
\* no user record and issues nothing.
C10_SigninUniformFailure ==
    /\ []((last.op = "signin" /\ last.status # 200) =>
            last = [Resp("signin", 400, "Incorrect email or password")
                        EXCEPT !.email = last.email])
    /\ [][ (last'.op = "signin" /\ last'.status # 200)
           => (users' = users /\ sessions' = sessions) ]_vars

\* the password is wrong for a registered email
C10_Witness ==
    /\ last.op = "signin"
    /\ last.status = 400
    /\ FindByEmail(users, last.email) # 0

AdminOps == {"promote", "block"}

\* user u is who the gate returns for tok: a correctly signed, unexpired token
\* of u, and u is not blocked
CallerIs(tok, u) == ValidTokenOf(tok, u) /\ ~users[u].is_blocked

\* C11: signout called by an authenticated user answers 200, sets that user's
\* stored refresh token to absent, and leaves that user's other fields and
\* every other user's record as they were.
C11_SignoutClears ==
    [][ \A u \in DOMAIN users :
            (last'.op = "signout" /\ CallerIs(last'.tok, u))
            => /\ last'.status = 200
               /\ last'.detail = "Successfully logged out"
               /\ users' = [users EXCEPT ![u].refresh_token = NoToken] ]_vars

\* a signed-in user has signed out while another user's stored token remains
C11_Witness ==
    /\ last.op = "signout"
    /\ last.status = 200
    /\ users[last.uid].refresh_token = NoToken
    /\ \E i \in DOMAIN sessions : sessions[i].refresh.sub = users[last.uid].email
    /\ \E v \in DOMAIN users : v # last.uid /\ users[v].refresh_token # NoToken

\* C12: promote and block/unblock run their body only for a caller whose role
\* is exactly admin; an authenticated caller with role moderator or user gets
\* 403 and no user record changes.
C12_ExactAdmin ==
    [][ last'.op \in AdminOps =>
          /\ \A u \in DOMAIN users :
                (CallerIs(last'.tok, u) /\ users[u].role # "admin")
                => (last'.status = 403 /\ users' = users)
          /\ last'.status \notin {401, 403}
                => \E u \in DOMAIN users :
                      CallerIs(last'.tok, u) /\ users[u].role = "admin" ]_vars

\* a moderator is refused
C12_Witness ==
    /\ last.op = "promote"
    /\ last.status = 403
    /\ last.uid \in DOMAIN users
    /\ users[last.uid].role = "moderator"

\* C13 (as claimed): a promote request, successful or not, never changes the
\* role of a user who was admin or moderator, and never makes an admin.
C13_Original ==
    [][ last'.op = "promote" =>
          /\ \A i \in DOMAIN users :
                users[i].role \in {"admin", "moderator"}
                => users'[i].role = users[i].role
          /\ \A i \in DOMAIN users' :
                users'[i].role = "admin"
                => (i \in DOMAIN users /\ users[i].role = "admin") ]_vars

\* C14: block/unblock called by an admin with the admin's own id fails with
\* 400 "You cannot block yourself." and no user record changes.
C14_SelfBlockDenied ==
    [][ \A u \in DOMAIN users :
            ( /\ last'.op = "block"
              /\ CallerIs(last'.tok, u)
              /\ users[u].role = "admin"
              /\ last'.target = u )
            => /\ last'.status = 400
               /\ last'.detail = "You cannot block yourself."
               /\ users' = users ]_vars

C14_Witness ==
    /\ last.op = "block"
    /\ last.status = 400
    /\ last.flag
    /\ last.target = last.uid
    /\ users[last.uid].role = "admin"
    /\ ~users[last.uid].is_blocked

\* C15: a user's role changes only in a successful promote step called by an
\* admin, and a user's is_blocked only in a successful block/unblock step
\* called by an admin; no step removes a user.
C15_RoleAndBlockFrame ==
    [][ \A i \in DOMAIN users :
          /\ i \in DOMAIN users'
          /\ users'[i].role # users[i].role
                => /\ last'.op = "promote" /\ last'.status = 200
                   /\ last'.target = i
                   /\ last'.uid \in DOMAIN users
                   /\ users[last'.uid].role = "admin"
          /\ users'[i].is_blocked # users[i].is_blocked
                => /\ last'.op = "block" /\ last'.status = 200
                   /\ last'.target = i
                   /\ last'.uid \in DOMAIN users
                   /\ users[last'.uid].role = "admin" ]_vars

\* a promoted user has been blocked
C15_Witness ==
    /\ last.op = "block"
    /\ last.status = 200
    /\ last.flag
    /\ users[last.target].is_blocked
    /\ users[last.target].role = "moderator"

C18_NotFound ==
    [][ \A u \in DOMAIN users :
            ( /\ last'.op \in AdminOps
              /\ CallerIs(last'.tok, u)
              /\ users[u].role = "admin"
              /\ last'.target \notin DOMAIN users )
            => /\ last'.status = 404
               /\ last'.detail = "User not found"
               /\ users' = users ]_vars

C18_Witness ==
    /\ last.op = "block"
    /\ last.status = 404
    /\ last.target \notin DOMAIN users
    /\ users[last.uid].role = "admin"

\* C19: from a successful signup with (e, p) on, signin(e, p) succeeds with an
\* access and a refresh token and signin(e, q) fails for every other password
\* q; the stored hashed_password is the salted digest get_password_hash
\* returns, not the plaintext; no later step changes a user's email or
\* hashed_password.
C19_PasswordRoundTrip ==
    /\ [](\A i \in DOMAIN users :
            \E p \in Passwords, s \in Salts :
                users[i].hashed_password = get_password_hash(p, s))
    /\ [][ \A f \in SignupForms :
              ( /\ last'.op = "signup" /\ last'.status = 200
                /\ last'.email = f.email /\ last'.username = f.username )
              => /\ LET r == signin(users', now', f.email, f.password).resp
                    IN  /\ r.status = 200
                        /\ r.uid = last'.uid
                        /\ r.access.kind = "signed"
                        /\ r.refresh.kind = "signed"
                 /\ \A q \in Passwords \ {f.password} :
                        signin(users', now', f.email, q).resp.status = 400 ]_vars
    /\ [][ \A i \in DOMAIN users :
              /\ users'[i].email = users[i].email
              /\ users'[i].hashed_password = users[i].hashed_password ]_vars

\* the signed-up user signs in with the password given at signup
C19_Witness ==
    /\ last.op = "signin"
    /\ last.status = 200
    /\ last.access.kind = "signed"
    /\ last.refresh.kind = "signed"
    /\ verify_password("p2", users[last.uid].hashed_password)
    /\ ~verify_password("p1", users[last.uid].hashed_password)

\* C17 (as claimed): a refresh that loaded and matched the stored refresh
\* token before a signout of the same user committed its clear, and resumes
\* after that commit, completes successfully.
C17_Original ==
    [][ \A p \in Procs :
            ( /\ pc[p] = "refresh_compare"
              /\ pc'[p] = "done"
              /\ loc[p].uid # 0
              /\ loc[p].stored = loc[p].tok
              /\ users[loc[p].uid].refresh_token = NoToken )
            => loc'[p].status = 200 ]_vars

\* C20: a successful create_comment(post_id, user_id, text) returns a comment
\* with exactly that text, post_id and user_id, get_comment_by_id of its id
\* returns the same, and get_comment_by_id of a stored comment's id keeps
\* returning that comment in every step but a successful update or delete
\* of that id.
C20_CreateThenGet ==
    /\ [][ (last'.op = "create_comment" /\ last'.status = 200)
           => /\ last'.comment.text = last'.text
              /\ last'.comment.post_id = last'.post_id
              /\ last'.comment.user_id = last'.user_id
              /\ last'.comment.id # 0
              /\ get_comment_by_id(comments, last'.comment.id) = NoComment
              /\ get_comment_by_id(comments', last'.comment.id) = last'.comment
         ]_vars
    /\ [][ \A i \in DOMAIN comments :
              get_comment_by_id(comments', comments[i].id) # comments[i]
              => /\ last'.op \in {"update_comment", "delete_comment"}
                 /\ last'.status = 200
                 /\ last'.id = comments[i].id ]_vars

\* the first comment still reads as created after a second one was created
\* by another user and then deleted
C20_Witness ==
    /\ last.op = "delete_comment"
    /\ last.status = 200
    /\ last.id = 2
    /\ get_comment_by_id(comments, 2) = NoComment
    /\ get_comment_by_id(comments, 1) =
          [id |-> 1, text |-> "t1", user_id |-> 2, post_id |-> 1]

\* the ids of the stored comments
CommentIds(cs) == {cs[i].id : i \in DOMAIN cs}

\* C21: a successful delete_comment(id) of a stored comment removes it and
\* changes no other comment; an id the table has handed out and that is no
\* longer stored is never found again, whatever is created afterwards.
C21_DeleteThenGone ==
    /\ [][ ( /\ last'.op = "delete_comment"
             /\ get_comment_by_id(comments, last'.id) # NoComment )
           => /\ last'.status = 200
              /\ get_comment_by_id(comments', last'.id) = NoComment
              /\ CommentIds(comments') = CommentIds(comments) \ {last'.id}
              /\ \A id \in CommentIds(comments') :
                    get_comment_by_id(comments', id)
                        = get_comment_by_id(comments, id) ]_vars
    /\ [][ \A id \in 1..comments_id_seq :
              get_comment_by_id(comments, id) = NoComment
              => get_comment_by_id(comments', id) = NoComment ]_vars

\* a comment was created after comment 1 was deleted, and 1 is still gone
C21_Witness ==
    /\ last.op = "create_comment"
    /\ last.status = 200
    /\ last.comment.id = 2
    /\ get_comment_by_id(comments, 1) = NoComment
    /\ get_comment_by_id(comments, 2) # NoComment

\* C22 (as claimed): update_comment(id, new_text) on a stored comment returns
\* it with the new text, its user_id and post_id and every other comment as
\* they were; with an id that matches no comment it fails with 404 "Comment
\* not found" and changes nothing.
C22_Original ==
    [][ last'.op = "update_comment" =>
          LET old == get_comment_by_id(comments, last'.id)
          IN  IF old # NoComment
              THEN /\ last'.status = 200
                   /\ last'.comment = [old EXCEPT !.text = last'.text]
                   /\ get_comment_by_id(comments', last'.id) = last'.comment
                   /\ CommentIds(comments') = CommentIds(comments)
                   /\ \A id \in CommentIds(comments) \ {last'.id} :
                         get_comment_by_id(comments', id)
                             = get_comment_by_id(comments, id)
              ELSE /\ last'.status = 404
                   /\ last'.detail = "Comment not found"
                   /\ comments' = comments ]_vars

\* the comments of set S in creation order: ids are handed out in that order
InCreationOrder(S) ==
    CHOOSE q \in [1..Cardinality(S) -> S] :
        \A i, j \in 1..Cardinality(S) : i < j => q[i].id < q[j].id

\* C23 (as claimed): get_comments_by_post_id(p, limit, offset) returns the
\* stored comments of post p in creation order, without the first offset of
\* them and at most limit of them; get_comments_by_user_id does the same for
\* the comments of a user.
C23_Original ==
    /\ last.op = "get_comments_by_post_id"
        => last.rows = Paginate(
              InCreationOrder({comments[i] : i \in
                    {k \in DOMAIN comments : comments[k].post_id = last.key}}),
              last.limit, last.offset)
    /\ last.op = "get_comments_by_user_id"
        => last.rows = Paginate(
              InCreationOrder({comments[i] : i \in
                    {k \in DOMAIN comments : comments[k].user_id = last.key}}),
              last.limit, last.offset)

TransformOps == {"resize_image", "crop_image", "rotate_image", "apply_effect"}

\* C24 (as claimed): get_qr_code, and resize_image, crop_image, rotate_image
\* and apply_effect called by an authenticated user, answer 404 "Post not
\* found" when no post has the given id, and then no post is created or
\* changed.
C24_Original ==
    [][ ( /\ \/ last'.op = "get_qr_code"
             \/ /\ last'.op \in TransformOps
                /\ \E u \in DOMAIN users : CallerIs(last'.tok, u)
          /\ FindPost(posts, last'.target) = 0 )
        => /\ last'.status = 404
           /\ last'.detail = "Post not found"
           /\ posts' = posts ]_vars

\* C30: a post leaves the store only in a successful delete_picture of its id
\* called by its owner or by an admin; called by anyone else, a moderator
\* included, delete_picture fails and no post or comment changes.
C30_DeleteOwnerOrAdmin ==
    [][ /\ \A i \in DOMAIN posts :
              FindPost(posts', posts[i].id) = 0
              => /\ last'.op = "delete_picture"
                 /\ last'.status = 200
                 /\ last'.target = posts[i].id
                 /\ \E u \in DOMAIN users :
                        /\ CallerIs(last'.tok, u)
                        /\ posts[i].owner_id = u \/ users[u].role = "admin"
        /\ \A i \in DOMAIN posts, u \in DOMAIN users :
              ( /\ last'.op = "delete_picture"
                /\ last'.target = posts[i].id
                /\ CallerIs(last'.tok, u)
                /\ posts[i].owner_id # u
                /\ users[u].role # "admin" )
              => /\ last'.status >= 400
                 /\ posts' = posts
                 /\ comments' = comments ]_vars

\* a moderator who does not own the post was refused and the post is stored
C30_Witness ==
    /\ last.op = "delete_picture"
    /\ last.status >= 400
    /\ last.uid \in DOMAIN users
    /\ users[last.uid].role = "moderator"
    /\ FindPost(posts, last.target) # 0
    /\ posts[FindPost(posts, last.target)].owner_id # last.uid

Staff == {"admin", "moderator"}

\* C25: the delete-comment route removes a comment only when the caller is an
\* authenticated admin or moderator; a caller with role user, the comment's
\* author included, gets 403 and no comment changes; an admin or moderator
\* deleting an id that matches no comment gets 404 and no comment changes.
C25_DeleteStaffOnly ==
    [][ /\ \A i \in DOMAIN comments :
              comments[i].id \notin CommentIds(comments')
              => /\ last'.op = "route_delete_comment"
                 /\ last'.status = 204
                 /\ last'.target = comments[i].id
                 /\ \E u \in DOMAIN users :
                        CallerIs(last'.tok, u) /\ users[u].role \in Staff
        /\ \A u \in DOMAIN users :
              ( /\ last'.op = "route_delete_comment"
                /\ CallerIs(last'.tok, u)
                /\ users[u].role = "user" )
              => /\ last'.status = 403
                 /\ comments' = comments
        /\ \A u \in DOMAIN users :
              ( /\ last'.op = "route_delete_comment"
                /\ CallerIs(last'.tok, u)
                /\ users[u].role \in Staff
                /\ get_comment_by_id(comments, last'.target) = NoComment )
              => /\ last'.status = 404
                 /\ last'.detail = "Comment not found"
                 /\ comments' = comments ]_vars

\* the author of a stored comment, whose role is user, was refused with 403
C25_Witness ==
    /\ last.op = "route_delete_comment"
    /\ last.status = 403
    /\ last.uid \in DOMAIN users
    /\ users[last.uid].role = "user"
    /\ get_comment_by_id(comments, last.target).user_id = last.uid

\* C26: the update-comment route changes a comment's text only when the
\* caller is the authenticated user who created the comment; any other
\* authenticated caller, an admin or a moderator included, gets 403 and no
\* comment changes; an unknown comment id gets 404.
C26_UpdateAuthorOnly ==
    [][ /\ \A i \in DOMAIN comments :
              get_comment_by_id(comments', comments[i].id).text # comments[i].text
              => \/ comments[i].id \notin CommentIds(comments')
                 \/ /\ last'.op = "route_update_comment"
                    /\ last'.status = 200
                    /\ last'.target = comments[i].id
                    /\ CallerIs(last'.tok, comments[i].user_id)
        /\ \A u \in DOMAIN users :
              ( /\ last'.op = "route_update_comment"
                /\ CallerIs(last'.tok, u)
                /\ get_comment_by_id(comments, last'.target) # NoComment
                /\ get_comment_by_id(comments, last'.target).user_id # u )
              => /\ last'.status = 403
                 /\ comments' = comments
        /\ \A u \in DOMAIN users :
              ( /\ last'.op = "route_update_comment"
                /\ CallerIs(last'.tok, u)
                /\ get_comment_by_id(comments, last'.target) = NoComment )
              => /\ last'.status = 404
                 /\ last'.detail = "Comment not found"
                 /\ comments' = comments ]_vars

\* an admin who did not create the stored comment was refused with 403
C26_Witness ==
    /\ last.op = "route_update_comment"
    /\ last.status = 403
    /\ last.uid \in DOMAIN users
    /\ users[last.uid].role = "admin"
    /\ get_comment_by_id(comments, last.target) # NoComment
    /\ get_comment_by_id(comments, last.target).user_id # last.uid

IssuedRefresh == {sessions[i].refresh : i \in DOMAIN sessions}
IssuedAccess == {sessions[i].access : i \in DOMAIN sessions}

\* C27 (as claimed): a refresh token a signin returned, presented unexpired
\* as the bearer token of a gated route, never resolves to a user.
C27_Original ==
    ( /\ last.op \in GatedOps
      /\ last.tok \in IssuedRefresh
      /\ last.tok.scope = "refresh_token"
      /\ last.tok.exp >= now )
    => /\ last.status # 200
       /\ last.uid = 0

\* C28: with requests one at a time, no user whose role is admin is blocked.
C28_NoBlockedAdmin ==
    \A u \in DOMAIN users : users[u].role = "admin" => ~users[u].is_blocked

\* an admin has blocked another user, and both are stored
C28_Witness ==
    /\ last.op = "block"
    /\ last.status = 200
    /\ last.uid \in DOMAIN users
    /\ users[last.uid].role = "admin"
    /\ last.target \in DOMAIN users
    /\ users[last.target].is_blocked

\* C29: an access token a signin returned is accepted by the gate after its
\* user's signout (the user holds no stored refresh token), as long as the
\* token has not expired and the user is not blocked.
C29_AccessSurvivesSignout ==
    \A u \in DOMAIN users :
        ( /\ last.op = "me"
          /\ last.tok \in IssuedAccess
          /\ last.tok.scope = "access_token"
          /\ last.tok.sub = users[u].email
          /\ last.tok.exp >= now
          /\ ~users[u].is_blocked
          /\ users[u].refresh_token = NoToken )
        => /\ last.status = 200
           /\ last.uid = u

\* a signed-out user's unexpired access token was accepted
C29_Witness ==
    /\ last.op = "me"
    /\ last.status = 200
    /\ last.tok \in IssuedAccess
    /\ last.tok.scope = "access_token"
    /\ last.uid \in DOMAIN users
    /\ users[last.uid].refresh_token = NoToken

====
